---- MODULE Spec2Model ----
(***************************************************************************)
(* A model of yammer's streaming response accumulation engine              *)
(* (src/src/lib.rs, accumulate), of the Accumulator fan-out over tuples    *)
(* (impl_accumulator!) and of the interactive shell loop                   *)
(* (src/src/conversation.rs, Conversation::shell).                         *)
(*                                                                         *)
(* A response body is a sequence of bytes.  An ASCII byte is written as    *)
(* the one-character string of its character; the two bytes of the UTF-8   *)
(* encoding of U+00E9 are written "xC3" and "xA9".                          *)
(***************************************************************************)
EXTENDS Integers, Sequences, FiniteSets, TLC

\* ------------------------------------------------------------------ bytes

Q == "\""
NL == "\n"
SP == " "

\* The whitespace str::trim removes and serde_json skips between tokens.
Whitespace == {SP, NL}

\* Lead and continuation bytes of a two-byte UTF-8 sequence.
Utf8Lead == {"xC3"}
Utf8Cont == {"xA9"}

\* std::str::from_utf8(chunk) succeeds: every lead byte is followed by a
\* continuation byte of the same chunk and every continuation byte follows
\* a lead byte.
from_utf8_ok(bytes) ==
    \A i \in 1..Len(bytes) :
        /\ bytes[i] \in Utf8Lead => (i < Len(bytes) /\ bytes[i + 1] \in Utf8Cont)
        /\ bytes[i] \in Utf8Cont => (i > 1 /\ bytes[i - 1] \in Utf8Lead)

\* The text of the Utf8Error conversion, "could not parse utf8: {err:?}", as
\* one token: it is a message like any other, but equal to no response body.
Utf8ErrorText == <<"could not parse utf8">>

RECURSIVE TrimStart(_)
TrimStart(s) ==
    IF s # <<>> /\ Head(s) \in Whitespace THEN TrimStart(Tail(s)) ELSE s

RECURSIVE TrimEnd(_)
TrimEnd(s) ==
    IF s # <<>> /\ s[Len(s)] \in Whitespace
    THEN TrimEnd(SubSeq(s, 1, Len(s) - 1))
    ELSE s

\* str::trim
trim(s) == TrimEnd(TrimStart(s))

\* ------------------------------------------------------------------- JSON
\* serde_json::Value for the part of JSON the modelled bodies use: objects,
\* arrays, strings, true, false and null.  An object is a map from key to
\* value in which a repeated key keeps its last value, as serde_json's Map
\* does.

Null == [t |-> "null"]
Bool(b) == [t |-> "bool", b |-> b]
Str(s) == [t |-> "str", s |-> s]
Object(m) == [t |-> "obj", m |-> m]
Array(a) == [t |-> "arr", a |-> a]

BS == "\\"

EmptyMap == [k \in {} |-> Null]

ParseFail == [ok |-> FALSE, v |-> Null, next |-> 0]
ParseOk(v, next) == [ok |-> TRUE, v |-> v, next |-> next]

RECURSIVE SkipWs(_, _)
SkipWs(s, i) ==
    IF i <= Len(s) /\ s[i] \in Whitespace THEN SkipWs(s, i + 1) ELSE i

\* s holds the bytes of word from position i on.
HasWord(s, i, word) ==
    /\ i + Len(word) - 1 <= Len(s)
    /\ \A k \in 1..Len(word) : s[i + k - 1] = word[k]

\* The characters that may follow a backslash inside a string; the model
\* knows the escapes of the quote, the backslash and the newline.
EscapeChars == {Q, BS, "n"}

\* The position of the quote closing the string whose content starts at i;
\* 0 when the string is not closed, holds a raw control character (the only
\* one of the model is the newline) or an escape that is none, which
\* serde_json rejects.
RECURSIVE StringEnd(_, _)
StringEnd(s, i) ==
    IF i > Len(s) THEN 0
    ELSE IF s[i] = Q THEN i
    ELSE IF s[i] = NL THEN 0
    ELSE IF s[i] = BS
    THEN (IF i < Len(s) /\ s[i + 1] \in EscapeChars THEN StringEnd(s, i + 2) ELSE 0)
    ELSE StringEnd(s, i + 1)

\* The characters a string's content between its quotes stands for.
RECURSIVE Unescape(_)
Unescape(s) ==
    IF s = <<>> THEN <<>>
    ELSE IF Head(s) = BS
    THEN <<(IF s[2] = "n" THEN NL ELSE s[2])>> \o Unescape(SubSeq(s, 3, Len(s)))
    ELSE <<Head(s)>> \o Unescape(Tail(s))

RECURSIVE ParseValueAt(_, _)
RECURSIVE ParseMembers(_, _, _)
RECURSIVE ParseElements(_, _, _)

\* After "{" or ",": a key, a colon, a value, then "," or "}".
ParseMembers(s, i, m) ==
    LET k0 == SkipWs(s, i) IN
    IF k0 > Len(s) \/ s[k0] # Q THEN ParseFail
    ELSE
    LET k1 == StringEnd(s, k0 + 1) IN
    IF k1 = 0 THEN ParseFail
    ELSE
    LET key == Unescape(SubSeq(s, k0 + 1, k1 - 1))
        c == SkipWs(s, k1 + 1) IN
    IF c > Len(s) \/ s[c] # ":" THEN ParseFail
    ELSE
    LET val == ParseValueAt(s, c + 1) IN
    IF ~val.ok THEN ParseFail
    ELSE
    LET e == SkipWs(s, val.next)
        m2 == (key :> val.v) @@ m IN
    IF e > Len(s) THEN ParseFail
    ELSE IF s[e] = "," THEN ParseMembers(s, e + 1, m2)
    ELSE IF s[e] = "}" THEN ParseOk(Object(m2), e + 1)
    ELSE ParseFail

\* After "[" or ",": a value, then "," or "]".
ParseElements(s, i, a) ==
    LET val == ParseValueAt(s, i) IN
    IF ~val.ok THEN ParseFail
    ELSE
    LET e == SkipWs(s, val.next)
        a2 == Append(a, val.v) IN
    IF e > Len(s) THEN ParseFail
    ELSE IF s[e] = "," THEN ParseElements(s, e + 1, a2)
    ELSE IF s[e] = "]" THEN ParseOk(Array(a2), e + 1)
    ELSE ParseFail

\* One JSON value starting at or after position i (leading whitespace is
\* skipped); next is the position after the value.
ParseValueAt(s, i) ==
    LET p == SkipWs(s, i) IN
    IF p > Len(s) THEN ParseFail
    ELSE IF s[p] = Q THEN
        LET e == StringEnd(s, p + 1) IN
        IF e = 0 THEN ParseFail
        ELSE ParseOk(Str(Unescape(SubSeq(s, p + 1, e - 1))), e + 1)
    ELSE IF s[p] = "{" THEN
        LET b == SkipWs(s, p + 1) IN
        IF b <= Len(s) /\ s[b] = "}" THEN ParseOk(Object(EmptyMap), b + 1)
        ELSE ParseMembers(s, p + 1, EmptyMap)
    ELSE IF s[p] = "[" THEN
        LET b == SkipWs(s, p + 1) IN
        IF b <= Len(s) /\ s[b] = "]" THEN ParseOk(Array(<<>>), b + 1)
        ELSE ParseElements(s, p + 1, <<>>)
    ELSE IF HasWord(s, p, <<"t", "r", "u", "e">>) THEN ParseOk(Bool(TRUE), p + 4)
    ELSE IF HasWord(s, p, <<"f", "a", "l", "s", "e">>) THEN ParseOk(Bool(FALSE), p + 5)
    ELSE IF HasWord(s, p, <<"n", "u", "l", "l">>) THEN ParseOk(Null, p + 4)
    ELSE ParseFail

\* serde_json::from_str::<serde_json::Value>: one value, then nothing but
\* whitespace up to the end of the input ("trailing characters" otherwise).
from_str(s) ==
    LET r == ParseValueAt(s, 1) IN
    IF r.ok /\ SkipWs(s, r.next) > Len(s) THEN [ok |-> TRUE, v |-> r.v]
    ELSE [ok |-> FALSE, v |-> Null]

ErrorKey == <<"e", "r", "r", "o", "r">>

\* serde_json::from_str::<ErrorResponse>: an object with a string at the key
\* "error"; other keys are ignored.
from_str_ErrorResponse(s) ==
    LET r == from_str(s) IN
    IF /\ r.ok
       /\ r.v.t = "obj"
       /\ ErrorKey \in DOMAIN r.v.m
       /\ r.v.m[ErrorKey].t = "str"
    THEN [ok |-> TRUE, error |-> r.v.m[ErrorKey].s]
    ELSE [ok |-> FALSE, error |-> <<>>]

\* --------------------------------------------------------------- Accumulator
\* An accumulator is a leaf (a sink), a reference to an accumulator (&mut T)
\* or a tuple of accumulators.  A sink's answer to a call is an input of the
\* model: flows[id] is what sink id returns for the value at hand.

Leaf(id) == [kind |-> "leaf", id |-> id]
Ref(to) == [kind |-> "ref", to |-> to]
Tuple(members) == [kind |-> "tuple", members |-> members]

ControlFlow == {"Continue", "Break"}

RECURSIVE Accumulator_accumulate(_, _)
RECURSIVE impl_accumulator(_, _, _, _)
RECURSIVE impl_accumulator_ignoring_break(_, _, _, _)

\* The tuple impl with the "?" dropped: every member is called and the group
\* always continues.
impl_accumulator_ignoring_break(members, i, flows, called) ==
    IF i > Len(members) THEN [flow |-> "Continue", called |-> called]
    ELSE LET r == Accumulator_accumulate(members[i], flows) IN
         impl_accumulator_ignoring_break(members, i + 1, flows, called \o r.called)

\* impl_accumulator!: $($name.accumulate(message.clone())?;)+ Continue(()).
\* The members from i on are called in declared order; "?" returns the first
\* Break at once.  called lists the sinks that received the value.
impl_accumulator(members, i, flows, called) ==
    IF i > Len(members) THEN [flow |-> "Continue", called |-> called]
    ELSE LET r == Accumulator_accumulate(members[i], flows) IN
         IF r.flow = "Break"
         THEN [flow |-> "Break", called |-> called \o r.called]
         ELSE impl_accumulator(members, i + 1, flows, called \o r.called)

\* Accumulator::accumulate on any accumulator.
Accumulator_accumulate(acc, flows) ==
    CASE acc.kind = "leaf" -> [flow |-> flows[acc.id], called |-> <<acc.id>>]
      [] acc.kind = "ref" -> Accumulator_accumulate(acc.to, flows)
      [] acc.kind = "tuple" -> impl_accumulator(acc.members, 1, flows, <<>>)

RECURSIVE Leaves(_)
Leaves(acc) ==
    CASE acc.kind = "leaf" -> {acc.id}
      [] acc.kind = "ref" -> Leaves(acc.to)
      [] acc.kind = "tuple" -> UNION {Leaves(acc.members[i]) : i \in 1..Len(acc.members)}

\* The most sinks a group of the model has.
MaxSinks == 3
Sinks == 1..MaxSinks

\* What each sink has been given: seen[id] grows by the value on every call.
Record(seen, called, value) ==
    [id \in DOMAIN seen |->
        IF \E k \in 1..Len(called) : called[k] = id
        THEN Append(seen[id], value)
        ELSE seen[id]]

NothingSeen == [id \in Sinks |-> <<>>]

\* ------------------------------------------------------------------ bodies

Key(k) == <<Q, k, Q, ":">>
Quoted(s) == <<Q>> \o s \o <<Q>>

\* {"r":"a b"}\n : one value whose string holds a space.
BodySpace == <<"{">> \o Key("r") \o Quoted(<<"a", SP, "b">>) \o <<"}", NL>>
\* {"r":"é"} : one value whose string holds a two-byte character.
BodyMultiByte == <<"{">> \o Key("r") \o Quoted(<<"xC3", "xA9">>) \o <<"}">>
\* {"a":"x"}\n{"d":true}\n : two newline-delimited values.
BodyTwoValues ==
    <<"{">> \o Key("a") \o Quoted(<<"x">>) \o <<"}", NL>>
    \o <<"{">> \o Key("d") \o <<"t", "r", "u", "e", "}", NL>>
\* {"error":"a b"} : a service error object.
BodyError ==
    <<"{", Q>> \o ErrorKey \o <<Q, ":">> \o Quoted(<<"a", SP, "b">>) \o <<"}">>
\* {"r":"a : a value that never completes.
BodyTruncated == <<"{">> \o Key("r") \o <<Q, "a">>

\* {"a":"x"}\n{"error":"e"} : a value, then a service error object.
BodyThenError ==
    <<"{">> \o Key("a") \o Quoted(<<"x">>) \o <<"}", NL>>
    \o <<"{", Q>> \o ErrorKey \o <<Q, ":">> \o Quoted(<<"e">>) \o <<"}">>

Bodies ==
    {BodySpace, BodyMultiByte, BodyTwoValues, BodyError, BodyTruncated, BodyThenError}

\* The most chunks a body is split into.
MaxChunks == 3

NonDecreasing(c) == \A i \in DOMAIN c : \A j \in DOMAIN c : i <= j => c[i] <= c[j]

\* Every split of body into MaxChunks consecutive chunks, empty ones included.
Chunkings(body) ==
    { [i \in 1..MaxChunks |->
          SubSeq(body,
                 (IF i = 1 THEN 0 ELSE c[i - 1]) + 1,
                 IF i = MaxChunks THEN Len(body) ELSE c[i])] :
      c \in {d \in [1..(MaxChunks - 1) -> 0..Len(body)] : NonDecreasing(d)} }

RECURSIVE Concat(_)
Concat(chunks) ==
    IF chunks = <<>> THEN <<>> ELSE Head(chunks) \o Concat(Tail(chunks))

\* The three chunks {"respo / nse":"Hi"}\n{"response" / :" there","done":true}\n
ResponseKey == <<"r", "e", "s", "p", "o", "n", "s", "e">>
ExampleChunks ==
    << <<"{", Q, "r", "e", "s", "p", "o">>,
       <<"n", "s", "e", Q, ":">> \o Quoted(<<"H", "i">>) \o <<"}", NL, "{", Q>>
           \o ResponseKey \o <<Q>>,
       <<":">> \o Quoted(<<SP, "t", "h", "e", "r", "e">>) \o <<",", Q, "d", "o", "n", "e", Q, ":",
           "t", "r", "u", "e", "}", NL>> >>

ChunkLists == UNION {Chunkings(b) : b \in Bodies} \cup {ExampleChunks}

\* ------------------------------------------------------------------ Error

NoResult == [kind |-> "none"]
Ok == [kind |-> "Ok"]
ErrMessage(text) == [kind |-> "Message", text |-> text]
ErrJson == [kind |-> "Json"]
ErrRequest == [kind |-> "Request"]

\* ------------------------------------------------------------- accumulate

\* The body of the streaming loop with the chunk appended as it came, without
\* the trim.
stream_chunk_untrimmed(buffer, bytes) ==
    IF ~from_utf8_ok(bytes)
    THEN [kind |-> "Utf8Error", leftovers |-> buffer, value |-> Null, error |-> Utf8ErrorText]
    ELSE
    LET grown == buffer \o bytes
        err == from_str_ErrorResponse(grown)
        message == from_str(grown)
    IN  IF bytes = <<>>
        THEN [kind |-> "Empty", leftovers |-> grown, value |-> Null, error |-> <<>>]
        ELSE IF err.ok
        THEN [kind |-> "ServiceError", leftovers |-> grown, value |-> Null, error |-> err.error]
        ELSE IF ~message.ok
        THEN [kind |-> "Incomplete", leftovers |-> grown, value |-> Null, error |-> <<>>]
        ELSE [kind |-> "Value", leftovers |-> grown, value |-> message.v, error |-> <<>>]

\* The body of the streaming loop up to the call of the consumer: the chunk
\* is decoded and trimmed, appended to leftovers, and, when it is not empty,
\* leftovers is parsed as an ErrorResponse first and as a Value second.
stream_chunk(buffer, bytes) ==
    IF ~from_utf8_ok(bytes)
    THEN [kind |-> "Utf8Error", leftovers |-> buffer, value |-> Null, error |-> Utf8ErrorText]
    ELSE
    LET chunk == trim(bytes)
        grown == buffer \o chunk
        err == from_str_ErrorResponse(grown)
        message == from_str(grown)
    IN  IF chunk = <<>>
        THEN [kind |-> "Empty", leftovers |-> grown, value |-> Null, error |-> <<>>]
        ELSE IF err.ok
        THEN [kind |-> "ServiceError", leftovers |-> grown, value |-> Null, error |-> err.error]
        ELSE IF ~message.ok
        THEN [kind |-> "Incomplete", leftovers |-> grown, value |-> Null, error |-> <<>>]
        ELSE [kind |-> "Value", leftovers |-> grown, value |-> message.v, error |-> <<>>]

\* The streaming loop with the consumer's answer ignored.
after_accumulate_ignoring_break(flow, buffer) ==
    [exit |-> FALSE, leftovers |-> <<>>]

\* if acc.accumulate(message).is_break() { break; } leftovers.clear();
after_accumulate(flow, buffer) ==
    IF flow = "Break"
    THEN [exit |-> TRUE, leftovers |-> buffer]
    ELSE [exit |-> FALSE, leftovers |-> <<>>]

\* The values the streaming loop hands to a consumer that never stops, and how
\* the loop ends, when no chunk read fails.
RECURSIVE RunStreaming(_, _, _)
RunStreaming(chunks, buffer, out) ==
    IF chunks = <<>> THEN [result |-> Ok, delivered |-> out]
    ELSE LET step == stream_chunk(buffer, Head(chunks)) IN
         CASE step.kind \in {"Utf8Error", "ServiceError"} ->
                  [result |-> ErrMessage(step.error), delivered |-> out]
           [] step.kind \in {"Empty", "Incomplete"} ->
                  RunStreaming(Tail(chunks), step.leftovers, out)
           [] step.kind = "Value" ->
                  RunStreaming(Tail(chunks), <<>>, Append(out, step.value))

\* ----------------------------------------------------------- ChatMessage

User == <<"u", "s", "e", "r">>
Assistant == <<"a", "s", "s", "i", "s", "t", "a", "n", "t">>
RoleKey == <<"r", "o", "l", "e">>
ContentKey == <<"c", "o", "n", "t", "e", "n", "t">>
MessageKey == <<"m", "e", "s", "s", "a", "g", "e">>
CreatedAtKey == <<"c", "r", "e", "a", "t", "e", "d", "_", "a", "t">>
DoneKey == <<"d", "o", "n", "e">>
ImagesKey == <<"i", "m", "a", "g", "e", "s">>
ToolCallsKey == <<"t", "o", "o", "l", "_", "c", "a", "l", "l", "s">>

\* ChatMessage { role, content, images: None, tool_calls: None }
ChatMessage(role, content) == [role |-> role, content |-> content]

\* The escapes serde_json writes inside a string.
RECURSIVE Escaped(_)
Escaped(s) ==
    IF s = <<>> THEN <<>>
    ELSE (CASE Head(s) = Q -> <<BS, Q>>
            [] Head(s) = BS -> <<BS, BS>>
            [] Head(s) = NL -> <<BS, "n">>
            [] OTHER -> <<Head(s)>>) \o Escaped(Tail(s))

\* serde_json::to_string(&ChatMessage) with the string written as it is.
to_string_unescaped(msg) ==
    <<"{", Q>> \o RoleKey \o <<Q, ":">> \o Quoted(msg.role)
    \o <<",", Q>> \o ContentKey \o <<Q, ":">> \o Quoted(msg.content)
    \o <<"}">>

\* serde_json::to_string(&ChatMessage): the fields that are None are skipped.
to_string(msg) ==
    <<"{", Q>> \o RoleKey \o <<Q, ":">> \o Quoted(Escaped(msg.role))
    \o <<",", Q>> \o ContentKey \o <<Q, ":">> \o Quoted(Escaped(msg.content))
    \o <<"}">>

\* A field of type String is present and a string.
HasString(m, key) == key \in DOMAIN m /\ m[key].t = "str"

\* A value of type Option<Vec<..>>: null, or an array (of strings when the
\* elements are Strings).
OptionVec(v, ofStrings) ==
    \/ v.t = "null"
    \/ /\ v.t = "arr"
       /\ ofStrings => \A i \in 1..Len(v.a) : v.a[i].t = "str"

\* A field of type Option<Vec<..>> is absent, null or an array.
AbsentOrNull(m, key, ofStrings) == key \in DOMAIN m => OptionVec(m[key], ofStrings)

NoMessage == [ok |-> FALSE, msg |-> ChatMessage(<<>>, <<>>)]

\* The derived Deserialize of ChatMessage: from an object with the strings
\* role and content (other keys are ignored), or from an array of the four
\* fields in declared order.
ChatMessage_deserialize(v) ==
    IF v.t = "obj"
    THEN IF /\ HasString(v.m, RoleKey)
            /\ HasString(v.m, ContentKey)
            /\ AbsentOrNull(v.m, ImagesKey, TRUE)
            /\ AbsentOrNull(v.m, ToolCallsKey, FALSE)
         THEN [ok |-> TRUE, msg |-> ChatMessage(v.m[RoleKey].s, v.m[ContentKey].s)]
         ELSE NoMessage
    ELSE IF v.t = "arr"
    THEN IF /\ Len(v.a) = 4
            /\ v.a[1].t = "str"
            /\ v.a[2].t = "str"
            /\ OptionVec(v.a[3], TRUE)
            /\ OptionVec(v.a[4], FALSE)
         THEN [ok |-> TRUE, msg |-> ChatMessage(v.a[1].s, v.a[2].s)]
         ELSE NoMessage
    ELSE NoMessage

\* serde_json::from_value::<ChatResponse>(msg): from an object with the
\* fields created_at, message and done, or from an array of the three.
from_value_ChatResponse(msg) ==
    IF msg.t = "obj"
    THEN IF /\ HasString(msg.m, CreatedAtKey)
            /\ DoneKey \in DOMAIN msg.m
            /\ msg.m[DoneKey].t = "bool"
            /\ MessageKey \in DOMAIN msg.m
         THEN ChatMessage_deserialize(msg.m[MessageKey])
         ELSE NoMessage
    ELSE IF msg.t = "arr"
    THEN IF /\ Len(msg.a) = 3
            /\ msg.a[1].t = "str"
            /\ msg.a[3].t = "bool"
         THEN ChatMessage_deserialize(msg.a[2])
         ELSE NoMessage
    ELSE NoMessage

\* serde_json::from_value::<ChatResponse>(msg) succeeds.
from_value_ChatResponse_ok(msg) == from_value_ChatResponse(msg).ok

\* ChatAccumulator::accumulate with the guard on seen_non_ws dropped: content
\* is written only when it is not whitespace.
ChatAccumulator_write_forgetful(seen, msg) ==
    LET r == from_value_ChatResponse(msg) IN
    IF r.ok /\ trim(r.msg.content) # <<>>
    THEN [seen_non_ws |-> TRUE, out |-> r.msg.content]
    ELSE [seen_non_ws |-> seen, out |-> <<>>]

\* ChatAccumulator::accumulate, what it writes to stdout and what becomes of
\* seen_non_ws: nothing on a value that is no ChatResponse, the content when
\* non-whitespace content has been seen or is at hand.
ChatAccumulator_write(seen, msg) ==
    LET r == from_value_ChatResponse(msg) IN
    IF r.ok /\ (seen \/ trim(r.msg.content) # <<>>)
    THEN [seen_non_ws |-> TRUE, out |-> r.msg.content]
    ELSE [seen_non_ws |-> seen, out |-> <<>>]

\* ChatAccumulator::accumulate that takes every value for a ChatResponse.
ChatAccumulator_accumulate_never_break(msg) == "Continue"

\* ChatAccumulator::accumulate: Break on a value that is no ChatResponse.
ChatAccumulator_accumulate(msg) ==
    IF from_value_ChatResponse_ok(msg) THEN "Continue" ELSE "Break"

\* serde_json::from_str::<ChatMessage>(line)
from_str_ChatMessage(line) ==
    LET r == from_str(line) IN
    IF r.ok THEN ChatMessage_deserialize(r.v) ELSE NoMessage

\* str::split_terminator(NL): the pieces between newlines; a final newline
\* ends the last piece and starts no further one.
split_terminator(bytes) ==
    LET ends == {i \in 1..Len(bytes) : bytes[i] = NL}
        n == Cardinality(ends)
        End(k) == CHOOSE e \in ends : Cardinality({x \in ends : x <= e}) = k
        Start(k) == IF k = 1 THEN 1 ELSE End(k - 1) + 1
        rest == IF n = 0 THEN 1 ELSE End(n) + 1
    IN  [k \in 1..n |-> SubSeq(bytes, Start(k), End(k) - 1)]
        \o (IF rest <= Len(bytes) THEN <<SubSeq(bytes, rest, Len(bytes))>> ELSE <<>>)

\* The loop of load over the lines: a line that is empty once trimmed, or
\* that is no ChatMessage, is skipped.
RECURSIVE load_lines(_)
load_lines(lines) ==
    IF lines = <<>> THEN <<>>
    ELSE LET line == trim(Head(lines))
             msg == from_str_ChatMessage(line) IN
         (IF line # <<>> /\ msg.ok THEN <<msg.msg>> ELSE <<>>)
             \o load_lines(Tail(lines))

\* load on a file that holds content.
load(content) == load_lines(split_terminator(content))

\* The bytes of a file made of lines, each ended by writeln!'s newline.
RECURSIVE FileBytes(_)
FileBytes(lines) ==
    IF lines = <<>> THEN <<>>
    ELSE Head(lines) \o <<NL>> \o FileBytes(Tail(lines))

\* The content one collected piece contributes to the assistant message.
PieceContent(x) ==
    IF /\ x.t = "obj"
       /\ MessageKey \in DOMAIN x.m
       /\ x.m[MessageKey].t = "obj"
       /\ ContentKey \in DOMAIN x.m[MessageKey].m
       /\ x.m[MessageKey].m[ContentKey].t = "str"
    THEN x.m[MessageKey].m[ContentKey].s
    ELSE <<>>

RECURSIVE JoinContent(_)
JoinContent(pieces) ==
    IF pieces = <<>> THEN <<>>
    ELSE PieceContent(Head(pieces)) \o JoinContent(Tail(pieces))

\* add_assistant_response with the test of the content dropped.
add_assistant_response_always_push(msgs, ps) ==
    Append(msgs, ChatMessage(Assistant, JoinContent(ps)))

\* Conversation::add_assistant_response
add_assistant_response(msgs, pieces) ==
    LET content == JoinContent(pieces) IN
    IF content # <<>> THEN Append(msgs, ChatMessage(Assistant, content)) ELSE msgs

\* --------------------------------------------------------- shell inputs

\* {"created_at":"t","message":{"role":"assistant","content":<c>},"done":<d>}\n
Fragment(content, isDone) ==
    <<"{", Q>> \o CreatedAtKey \o <<Q, ":">> \o Quoted(<<"t">>)
    \o <<",", Q>> \o MessageKey \o <<Q, ":", "{", Q>> \o RoleKey \o <<Q, ":">>
    \o Quoted(Assistant) \o <<",", Q>> \o ContentKey \o <<Q, ":">> \o Quoted(content)
    \o <<"}", ",", Q>> \o DoneKey \o <<Q, ":">>
    \o (IF isDone THEN <<"t", "r", "u", "e">> ELSE <<"f", "a", "l", "s", "e">>)
    \o <<"}", NL>>

ErrorObject == <<"{", Q>> \o ErrorKey \o <<Q, ":">> \o Quoted(<<"e">>) \o <<"}">>

\* The responses the service gives a chat request: status and chunks.
ShellResponses ==
    { [status |-> 200, chunks |-> <<Fragment(<<>>, FALSE), Fragment(<<"4", "2">>, TRUE)>>],
      [status |-> 200, chunks |-> <<SubSeq(Fragment(<<"4">>, TRUE), 1, 30),
                                    SubSeq(Fragment(<<"4">>, TRUE), 31, Len(Fragment(<<"4">>, TRUE)))>>],
      [status |-> 200, chunks |-> <<Fragment(<<"4">>, FALSE), ErrorObject>>],
      [status |-> 200, chunks |-> <<BodySpace, Fragment(<<"4">>, TRUE)>>],
      [status |-> 200, chunks |-> <<Fragment(<<>>, TRUE)>>],
      [status |-> 200, chunks |-> <<>>],
      [status |-> 500, chunks |-> <<<<"n", "o">>>>] }

\* The lines rl.readline returns: a turn, /exit, an unknown command, and
\* /exit after a space.
Exit == <<"/", "e", "x", "i", "t">>
ReadLines == {<<"h", "i">>, Exit, <<"/", "x">>, <<SP>> \o Exit}

\* line.starts_with("/"): the test without the trim.
IsCommand_untrimmed(line) == line # <<>> /\ Head(line) = "/"

\* line.trim().starts_with("/")
IsCommand(line) == trim(line) # <<>> /\ Head(trim(line)) = "/"

\* Conversation::command: Break on "/exit", Continue on anything else.
command(line) == IF line = Exit THEN "Break" ELSE "Continue"

\* The line recording std::env::args(): ["yammer"]
ArgsLine == <<"[", Q, "y", "a", "m", "m", "e", "r", Q, "]">>

\* The transcripts a session starts from: empty, or loaded from a log.
LoadedTranscripts ==
    { <<>>, <<ChatMessage(User, <<"q">>), ChatMessage(Assistant, <<"a">>)>> }

\* The most turns of a session.
MaxTurns == 2

\* The statements of a turn after the push of the user message, in the
\* order of the source, with log_last ahead of the drop of the accumulator.
TurnSteps_log_before_drop ==
    <<"log_user", "request", "start", "accumulate", "inhibit", "log_last", "drop_acc">>

\* The statements of a turn after the push of the user message, with the
\* write of the user message moved behind the write after the response.
TurnSteps_log_user_late ==
    <<"request", "start", "accumulate", "inhibit", "drop_acc", "log_last", "log_user">>

\* The statements of a turn after the push of the user message, without the
\* call of spinner.inhibit() that follows accumulate.
TurnSteps_no_inhibit ==
    <<"log_user", "request", "start", "accumulate", "drop_acc", "log_last">>

\* The statements of a turn after the push of the user message, in the
\* order of the source.
TurnSteps ==
    <<"log_user", "request", "start", "accumulate", "inhibit", "drop_acc", "log_last">>

FirstStep == TurnSteps[1]

\* The statement after step; readline after the last.
After(step) ==
    LET i == CHOOSE k \in 1..Len(TurnSteps) : TurnSteps[k] = step IN
    IF i = Len(TurnSteps) THEN "readline" ELSE TurnSteps[i + 1]

\* The most values a group is given in the fan-out specification.
MaxValues == 3

VARIABLES
    streaming,    \* req.streaming
    status,       \* resp.status()
    body,         \* the whole response body
    pending,      \* the chunks resp.chunk() has yet to return
    acc,          \* the consumer
    leftovers,    \* the streaming loop's buffer
    text,         \* the buffer of the other two loops
    apc,          \* where accumulate is
    result,       \* what accumulate returned
    delivered,    \* the values accumulate has handed to acc
    seen,         \* the values each sink has received
    stopped,      \* acc answered Break in the streaming loop
    chunks_read,  \* the chunks resp.chunk() has returned
    calls,        \* the values a caller has handed to acc directly
    last,         \* the latest call of acc: the sinks' answers and the outcome
    spc,          \* where Conversation::shell is
    messages,     \* self.messages, the transcript
    logging,      \* options.log is Some
    log_file,     \* the lines this session has written through to the log file
    log_buf,      \* the lines held in the log's BufWriter
    inhibited,    \* Spinner::inhibited
    done,         \* Spinner::done
    turns,        \* the turns dispatched so far
    trace,        \* what the current turn has done so far, in order
    shell_result, \* what Conversation::shell returned
    request,      \* the messages of the turn's ChatRequest
    printed,      \* what the ChatAccumulator has written to stdout
    seen_non_ws,  \* ChatAccumulator::seen_non_ws
    bpc,          \* where the Spinner's background thread is
    frame,        \* the background thread's i, modulo the number of glyphs
    read,         \* the latest outcome of rl.readline and what its arm reported
    erases        \* the erase sequences Spinner::inhibit has written

shellVars == <<spc, messages, logging, log_file, log_buf, inhibited, done, turns,
               trace, shell_result, request, printed, seen_non_ws, bpc, frame,
                   read, erases>>

vars == <<streaming, status, body, pending, acc, leftovers, text, apc, result,
          delivered, seen, stopped, chunks_read, calls, last, spc, messages,
          logging, log_file, log_buf, inhibited, done, turns, trace,
          shell_result, request, printed, seen_non_ws, bpc, frame,
                   read, erases>>

engineVars == <<streaming, status, body, pending, leftovers, text, apc, result,
                delivered, stopped, chunks_read>>

\* No line has been read yet.
NoRead == [kind |-> "none", line |-> <<>>, report |-> "none"]

NoCall == [flows |-> [id \in Sinks |-> "Continue"], flow |-> "Continue", called |-> <<>>]

\* The group with the printer ahead of the spinner.
ShellGroup_printer_first == Ref(Tuple(<<Ref(Leaf(3)), Ref(Leaf(1)), Ref(Leaf(2))>>))

\* &mut (&mut spinner, &mut acc, &mut printer): a reference to a tuple of
\* references to sinks.
ShellGroup == Ref(Tuple(<<Ref(Leaf(1)), Ref(Leaf(2)), Ref(Leaf(3))>>))

\* The consumers of the engine: one sink by value, and the shell's group.
EngineAccs == {Leaf(1), ShellGroup}

EngineIdle ==
    /\ streaming = FALSE
    /\ status = 0
    /\ body = <<>>
    /\ pending = <<>>
    /\ leftovers = <<>>
    /\ text = <<>>
    /\ apc = "idle"
    /\ result = NoResult
    /\ delivered = <<>>
    /\ stopped = FALSE
    /\ chunks_read = 0

ShellIdle ==
    /\ spc = "idle"
    /\ messages = <<>>
    /\ logging = FALSE
    /\ log_file = <<>>
    /\ log_buf = <<>>
    /\ inhibited = TRUE
    /\ done = FALSE
    /\ turns = 0
    /\ trace = <<>>
    /\ shell_result = NoResult
    /\ request = <<>>
    /\ printed = <<>>
    /\ seen_non_ws = FALSE
    /\ bpc = "idle"
    /\ frame = 0
    /\ read = NoRead
    /\ erases = 0

\* accumulate(req, acc) is entered with a request and the response it will get.
EngineInit ==
    /\ ShellIdle
    /\ streaming \in BOOLEAN
    /\ status \in {200, 500}
    /\ pending \in ChunkLists
    /\ body = Concat(pending)
    /\ acc \in EngineAccs
    /\ leftovers = <<>>
    /\ text = <<>>
    /\ apc = "doit"
    /\ result = NoResult
    /\ delivered = <<>>
    /\ seen = NothingSeen
    /\ stopped = FALSE
    /\ chunks_read = 0
    /\ calls = 0
    /\ last = NoCall

Return(r) ==
    /\ result' = r
    /\ apc' = "done"

\* acc.accumulate(message) with the sinks answering flows.
Deliver(message, flows) ==
    LET r == Accumulator_accumulate(acc, flows) IN
    /\ delivered' = Append(delivered, message)
    /\ seen' = Record(seen, r.called, message)
    /\ last' = [flows |-> flows, flow |-> r.flow, called |-> r.called]

\* let mut resp = req.doit().await?; and the dispatch on status and streaming.
Doit ==
    /\ apc = "doit"
    /\ \/ Return(ErrRequest)
       \/ /\ apc' = IF status # 200 THEN "error_body"
                    ELSE IF streaming THEN "streaming" ELSE "text"
          /\ UNCHANGED result
    /\ UNCHANGED <<streaming, status, body, pending, acc, leftovers, text,
                   delivered, seen, stopped, chunks_read, calls, last>>

\* resp.chunk().await? fails in any of the three loops.
ChunkFails ==
    /\ apc \in {"error_body", "streaming", "text"}
    /\ Return(ErrRequest)
    /\ UNCHANGED <<streaming, status, body, pending, acc, leftovers, text,
                   delivered, seen, stopped, chunks_read, calls, last>>

\* One turn of the loop taken when the status is not 200, or its end.
ErrorBodyChunk ==
    /\ apc = "error_body"
    /\ IF pending = <<>>
       THEN /\ Return(ErrMessage(text))
            /\ UNCHANGED <<pending, text, chunks_read>>
       ELSE /\ pending' = Tail(pending)
            /\ chunks_read' = chunks_read + 1
            /\ IF from_utf8_ok(Head(pending))
               THEN /\ text' = text \o Head(pending)
                    /\ UNCHANGED <<result, apc>>
               ELSE /\ Return(ErrMessage(Utf8ErrorText))
                    /\ UNCHANGED text
    /\ UNCHANGED <<streaming, status, body, acc, leftovers, delivered, seen,
                   stopped, calls, last>>

\* One turn of the streaming loop, or its end.
StreamChunk ==
    /\ apc = "streaming"
    /\ IF pending = <<>>
       THEN /\ Return(Ok)
            /\ UNCHANGED <<pending, leftovers, delivered, seen, stopped,
                           chunks_read, last>>
       ELSE LET step == stream_chunk(leftovers, Head(pending)) IN
            /\ pending' = Tail(pending)
            /\ chunks_read' = chunks_read + 1
            /\ CASE step.kind \in {"Utf8Error", "ServiceError"} ->
                        /\ Return(ErrMessage(step.error))
                        /\ leftovers' = step.leftovers
                        /\ UNCHANGED <<delivered, seen, stopped, last>>
                 [] step.kind \in {"Empty", "Incomplete"} ->
                        /\ leftovers' = step.leftovers
                        /\ UNCHANGED <<result, apc, delivered, seen, stopped, last>>
                 [] step.kind = "Value" ->
                        \E flows \in [Sinks -> ControlFlow] :
                            LET after == after_accumulate(
                                    Accumulator_accumulate(acc, flows).flow,
                                    step.leftovers) IN
                            /\ Deliver(step.value, flows)
                            /\ leftovers' = after.leftovers
                            /\ stopped' = (Accumulator_accumulate(acc, flows).flow = "Break")
                            /\ IF after.exit
                               THEN Return(Ok)
                               ELSE UNCHANGED <<result, apc>>
    /\ UNCHANGED <<streaming, status, body, acc, text, calls>>

\* One turn of the non-streaming loop, or the parse and the single call of
\* the consumer after it.
TextChunk ==
    /\ apc = "text"
    /\ IF pending = <<>>
       THEN LET message == from_str(trim(text)) IN
            /\ UNCHANGED <<pending, text, chunks_read>>
            /\ IF message.ok
               THEN /\ \E flows \in [Sinks -> ControlFlow] : Deliver(message.v, flows)
                    /\ Return(Ok)
               ELSE /\ Return(ErrJson)
                    /\ UNCHANGED <<delivered, seen, last>>
       ELSE /\ pending' = Tail(pending)
            /\ chunks_read' = chunks_read + 1
            /\ UNCHANGED <<delivered, seen, last>>
            /\ IF Head(pending) = <<>>
               THEN UNCHANGED <<text, result, apc>>
               ELSE IF from_utf8_ok(Head(pending))
               THEN /\ text' = text \o Head(pending)
                    /\ UNCHANGED <<result, apc>>
               ELSE /\ Return(ErrMessage(Utf8ErrorText))
                    /\ UNCHANGED text
    /\ UNCHANGED <<streaming, status, body, acc, leftovers, stopped, calls>>

\* The steps of accumulate called on its own: no shell is running.
EngineDoit == Doit /\ UNCHANGED shellVars
EngineChunkFails == ChunkFails /\ UNCHANGED shellVars
EngineErrorBodyChunk == ErrorBodyChunk /\ UNCHANGED shellVars
EngineStreamChunk == StreamChunk /\ UNCHANGED shellVars
EngineTextChunk == TextChunk /\ UNCHANGED shellVars

EngineNext ==
    \/ EngineDoit
    \/ EngineChunkFails
    \/ EngineErrorBodyChunk
    \/ EngineStreamChunk
    \/ EngineTextChunk

SpecEngine == EngineInit /\ [][EngineNext]_vars

\* ----------------------------------------------------- claims on the engine

\* accumulate has returned from a streaming response with status 200 all of
\* whose chunk reads succeeded.
StreamingDone ==
    /\ apc = "done"
    /\ status = 200
    /\ streaming
    /\ result.kind # "Request"

\* Some chunk that is not empty is still unread.
MoreToRead == \E i \in 1..Len(pending) : pending[i] # <<>>

\* The newline-delimited lines of a body, the empty ones dropped.
RECURSIVE Lines(_, _)
Lines(bytes, line) ==
    IF bytes = <<>> THEN (IF line = <<>> THEN <<>> ELSE <<line>>)
    ELSE IF Head(bytes) = NL
    THEN (IF line = <<>> THEN <<>> ELSE <<line>>) \o Lines(Tail(bytes), <<>>)
    ELSE Lines(Tail(bytes), Append(line, Head(bytes)))

\* The body is one or more newline-delimited JSON values, none an error object.
IsNdjson(bytes) ==
    LET ls == Lines(bytes, <<>>) IN
    /\ ls # <<>>
    /\ \A i \in 1..Len(ls) : from_str(ls[i]).ok /\ ~from_str_ErrorResponse(ls[i]).ok

NdjsonValues(bytes) ==
    LET ls == Lines(bytes, <<>>) IN [i \in 1..Len(ls) |-> from_str(ls[i]).v]

\* C1: chunk-boundary invariance.  When accumulate has returned from a
\* streaming response that the consumer did not stop, the values delivered are
\* those delivered when the same body arrives as one unsplit chunk.
C1_ChunkBoundaryInvariance ==
    (StreamingDone /\ ~stopped)
        => delivered = RunStreaming(<<body>>, <<>>, <<>>).delivered

\* C2: when the body of a streaming response is k newline-delimited JSON
\* values, none an error object, accumulate delivers exactly those k values in
\* order, each once, and succeeds, however the body is chunked.
C2_NdjsonValuesDelivered ==
    (StreamingDone /\ ~stopped /\ IsNdjson(body))
        => (delivered = NdjsonValues(body) /\ result = Ok)

\* C3: a non-streaming response with status 200 whose chunk reads succeed
\* calls the consumer exactly once, with the value parsed from the trimmed
\* concatenation of all chunks, and succeeds; when that concatenation does not
\* parse the consumer is not called and accumulate fails with a decode error.
C3_NonStreamingOnce ==
    (apc = "done" /\ status = 200 /\ ~streaming /\ result.kind # "Request")
        => LET message == from_str(trim(body)) IN
           IF message.ok
           THEN delivered = <<message.v>> /\ result = Ok
           ELSE delivered = <<>> /\ result = ErrJson

\* C4: when the body of a streaming response is a single service error
\* object, accumulate returns a service error carrying the object's error
\* string and the consumer receives no value, however the object is split.
C4_ErrorObjectYieldsServiceError ==
    (StreamingDone /\ from_str_ErrorResponse(body).ok)
        => /\ result = ErrMessage(from_str_ErrorResponse(body).error)
           /\ delivered = <<>>

\* C5: when the status is not 200 and the chunk reads succeed, accumulate
\* never calls the consumer, drains every chunk and returns a service error
\* whose message is the concatenation of the chunks.
C5_NonOkStatus ==
    (apc = "done" /\ status # 200 /\ result.kind # "Request")
        => /\ delivered = <<>>
           /\ pending = <<>>
           /\ result = ErrMessage(body)

\* C6: early stop.  Once the consumer has answered Break for a delivered
\* value, accumulate has returned Ok, and no further chunk is read and no
\* further value delivered, whatever is left in the byte stream.
C6_EarlyStop ==
    /\ [](stopped => (apc = "done" /\ result = Ok))
    /\ [][stopped => UNCHANGED <<chunks_read, pending, delivered>>]_vars

C6_Witness ==
    /\ stopped
    /\ MoreToRead
    /\ result = Ok

\* C9: when a group is the consumer of the streaming engine, the values seen
\* by every member stay as they are once the group has answered Break.
C9_NoValueAfterGroupStop ==
    [][(stopped /\ acc = ShellGroup) => UNCHANGED seen]_vars

C9_Witness ==
    /\ stopped
    /\ acc = ShellGroup
    /\ MoreToRead
    /\ \A id \in Leaves(acc) : Len(seen[id]) = 1

\* ------------------------------------------------------------------ fan-out

\* The groups a caller builds: tuples of one to MaxSinks sinks, the shell's
\* group, and groups with a group as a member.
FanoutAccs ==
    { Tuple(<<Leaf(1)>>),
      Tuple(<<Leaf(1), Leaf(2)>>),
      Tuple([i \in 1..MaxSinks |-> Leaf(i)]),
      ShellGroup,
      Tuple(<<Tuple(<<Leaf(1), Leaf(2)>>), Leaf(3)>>),
      Tuple(<<Leaf(1), Ref(Tuple(<<Leaf(2), Leaf(3)>>))>>) }

FanoutInit ==
    /\ EngineIdle
    /\ ShellIdle
    /\ acc \in FanoutAccs
    /\ seen = NothingSeen
    /\ calls = 0
    /\ last = NoCall

\* A caller hands the next value to the group.  The values are numbered.
FanoutCall ==
    /\ calls < MaxValues
    /\ \E flows \in [Sinks -> ControlFlow] :
           LET r == Accumulator_accumulate(acc, flows) IN
           /\ seen' = Record(seen, r.called, calls + 1)
           /\ last' = [flows |-> flows, flow |-> r.flow, called |-> r.called]
    /\ calls' = calls + 1
    /\ UNCHANGED <<acc, engineVars, shellVars>>

FanoutNext == FanoutCall

SpecFanout == FanoutInit /\ [][FanoutNext]_vars

\* -------------------------------------------------------------------- shell

ErrIo == [kind |-> "Io"]

\* A request built from no messages at all.
Conversation_request_empty(msgs) == <<>>

\* Conversation::request: the messages of the ChatRequest are self.messages.
Conversation_request(msgs) == msgs

\* Spinner::inhibit writes the erase sequence only when the flag was false.
Erased(flag, count) == IF flag THEN count ELSE count + 1

\* Sink id is among the sinks a call of the group reached.
Reached(id, called) == \E i \in 1..Len(called) : called[i] = id

\* What the shell's three sinks answer for a value: the spinner and the
\* ConversationAccumulator always continue, the ChatAccumulator decides.
ShellFlows(value) ==
    [id \in Sinks |-> IF id = 3 THEN ChatAccumulator_accumulate(value) ELSE "Continue"]

\* ConversationAccumulator::pieces: what the second sink has collected.
pieces == seen[2]

\* Conversation::shell after its setup: the spinner is inhibited, the log
\* holds the line of the arguments (flushed or still buffered), the
\* transcript is empty or loaded.  The Spinner's background thread reads the
\* two flags and writes nothing but glyphs; its steps are those of
\* SpecSpinner and are left out here.
ShellInit ==
    /\ EngineIdle
    /\ acc = ShellGroup
    /\ seen = NothingSeen
    /\ calls = 0
    /\ last = NoCall
    /\ spc = "readline"
    /\ messages \in LoadedTranscripts
    /\ logging \in BOOLEAN
    /\ \E flushed \in BOOLEAN :
           /\ log_file = IF logging /\ flushed THEN <<ArgsLine>> ELSE <<>>
           /\ log_buf = IF logging /\ ~flushed THEN <<ArgsLine>> ELSE <<>>
    /\ inhibited = TRUE
    /\ done = FALSE
    /\ turns = 0
    /\ trace = <<>>
    /\ shell_result = NoResult
    /\ request = <<>>
    /\ printed = <<>>
    /\ seen_non_ws = FALSE
    /\ bpc = "idle"
    /\ frame = 0
    /\ read = NoRead
    /\ erases = 0

\* Conversation::shell returns r: the log's BufWriter is dropped (it flushes,
\* and the outcome is ignored) and the Spinner is dropped.
ReturnFromShell(r) ==
    /\ spc' = "exit"
    /\ shell_result' = r
    /\ \E flushed \in BOOLEAN :
           log_file' = IF flushed THEN log_file \o log_buf ELSE log_file
    /\ log_buf' = <<>>
    /\ done' = TRUE
    /\ inhibited' = TRUE
    /\ erases' = Erased(inhibited, erases)

\* writeln!(log, "{}", line)? and let _ = log.flush(), then on to the
\* statement after step: the line reaches the file, or stays in the buffer
\* when the flush fails, or the write fails and the shell returns the error.
LogWrite(line, step) ==
    \/ /\ log_file' = log_file \o log_buf \o <<line>>
       /\ log_buf' = <<>>
       /\ spc' = After(step)
       /\ UNCHANGED <<shell_result, done, inhibited, erases>>
    \/ /\ log_buf' = Append(log_buf, line)
       /\ spc' = After(step)
       /\ UNCHANGED <<log_file, shell_result, done, inhibited, erases>>
    \/ ReturnFromShell(ErrIo)

\* continue, or the end of a match arm that falls through to the loop.
Continue_loop ==
    UNCHANGED <<spc, messages, log_file, log_buf, inhibited, done, turns, trace,
                shell_result, erases>>

Read(kind, line, report) == [kind |-> kind, line |-> line, report |-> report]

\* Ok(line): a command, or the push of the user message.
ReadOk(line) ==
    IF IsCommand(line)
    THEN IF command(line) = "Break"
         THEN /\ ReturnFromShell(Ok)
              /\ read' = Read("Ok", line, "none")
              /\ UNCHANGED <<messages, turns, trace>>
         ELSE /\ Continue_loop
              /\ read' = Read("Ok", line, "unknown command")
    ELSE /\ turns < MaxTurns
         /\ messages' = Append(messages, ChatMessage(User, line))
         /\ turns' = turns + 1
         /\ trace' = <<"push_user">>
         /\ spc' = FirstStep
         /\ read' = Read("Ok", line, "none")
         /\ UNCHANGED <<log_file, log_buf, inhibited, done, shell_result, erases>>

\* An interrupt that ends the session as the end of input does.
ReadInterrupted_returns ==
    /\ ReturnFromShell(Ok)
    /\ read' = Read("Interrupted", <<>>, "none")
    /\ UNCHANGED <<messages, turns, trace>>

\* Err(ReadlineError::Interrupted) => {}
ReadInterrupted ==
    /\ Continue_loop
    /\ read' = Read("Interrupted", <<>>, "none")

\* Err(ReadlineError::Eof) => return Ok(())
ReadEof ==
    /\ ReturnFromShell(Ok)
    /\ read' = Read("Eof", <<>>, "none")
    /\ UNCHANGED <<messages, turns, trace>>

\* Err(err) => eprintln!("could not read line: {}", err)
ReadErr ==
    /\ Continue_loop
    /\ read' = Read("Err", <<>>, "could not read line")

\* rl.readline(&options.ps1) and the match on it, up to the push of the user
\* message.
ReadLine ==
    /\ spc = "readline"
    /\ \/ \E line \in ReadLines : ReadOk(line)
       \/ ReadInterrupted
       \/ ReadEof
       \/ ReadErr
    /\ UNCHANGED <<engineVars, acc, seen, calls, last, logging, request, printed,
                   seen_non_ws, bpc, frame>>

\* The write of the user message to the log.
LogUser ==
    /\ spc = "log_user"
    /\ IF logging
       THEN /\ LogWrite(to_string(messages[Len(messages)]), "log_user")
            /\ trace' = Append(trace, "log_user")
       ELSE /\ spc' = After("log_user")
            /\ UNCHANGED <<log_file, log_buf, shell_result, done, inhibited, trace,
                           erases>>
    /\ UNCHANGED <<engineVars, acc, seen, calls, last, messages, logging, turns,
                   request, printed, seen_non_ws, bpc, frame, read>>

\* self.clone().request(..) and Request::chat, which may fail: the failure
\* is reported and the loop continues.
BuildRequest ==
    /\ spc = "request"
    /\ request' = Conversation_request(messages)
    /\ \/ /\ spc' = After("request")
          /\ UNCHANGED trace
       \/ /\ spc' = "readline"
          /\ trace' = Append(trace, "request_failed")
    /\ UNCHANGED <<engineVars, acc, seen, calls, last, messages, logging, log_file,
                   log_buf, inhibited, done, turns, shell_result, printed,
                   seen_non_ws, bpc, frame,
                   read, erases>>

\* The printer and the accumulator are made, spinner.start(), and accumulate
\* is called on the group of the three sinks; the service will answer with
\* one of ShellResponses.
SpinnerStart ==
    /\ spc = "start"
    /\ inhibited' = FALSE
    /\ \E r \in ShellResponses :
           /\ status' = r.status
           /\ pending' = r.chunks
           /\ body' = Concat(r.chunks)
    /\ streaming' = TRUE
    /\ leftovers' = <<>>
    /\ text' = <<>>
    /\ apc' = "doit"
    /\ result' = NoResult
    /\ delivered' = <<>>
    /\ stopped' = FALSE
    /\ chunks_read' = 0
    /\ seen' = NothingSeen
    /\ last' = NoCall
    /\ printed' = <<>>
    /\ seen_non_ws' = FALSE
    /\ spc' = After("start")
    /\ UNCHANGED <<acc, calls, messages, logging, log_file, log_buf, done, turns,
                   trace, shell_result, request, bpc, frame,
                   read, erases>>

\* One step of accumulate with the shell's sinks as the consumer: a delivered
\* value inhibits the spinner, is collected, and is judged by the printer.
ShellAccumulate(step) ==
    /\ spc = "accumulate"
    /\ apc # "done"
    /\ step
    /\ delivered' # delivered => last'.flows = ShellFlows(delivered'[Len(delivered')])
    /\ IF delivered' # delivered /\ Reached(1, last'.called)
       THEN /\ inhibited' = TRUE
            /\ erases' = Erased(inhibited, erases)
       ELSE UNCHANGED <<inhibited, erases>>
    /\ IF delivered' # delivered /\ Reached(3, last'.called)
       THEN LET w == ChatAccumulator_write(seen_non_ws, delivered'[Len(delivered')]) IN
            /\ printed' = printed \o w.out
            /\ seen_non_ws' = w.seen_non_ws
       ELSE UNCHANGED <<printed, seen_non_ws>>
    /\ trace' = trace \o (IF apc = "doit" THEN <<"transport">> ELSE <<>>)
                      \o (IF apc' = "done" THEN <<"returned">> ELSE <<>>)
    /\ spc' = IF apc' = "done" THEN After("accumulate") ELSE spc
    /\ UNCHANGED <<messages, logging, log_file, log_buf, done, turns, shell_result,
                   request, bpc, frame, read>>

ShellDoit == ShellAccumulate(Doit)
ShellChunkFails == ShellAccumulate(ChunkFails)
ShellErrorBodyChunk == ShellAccumulate(ErrorBodyChunk)
ShellStreamChunk == ShellAccumulate(StreamChunk)

\* spinner.inhibit() and the report of the outcome.
ShellInhibit ==
    /\ spc = "inhibit"
    /\ inhibited' = TRUE
    /\ erases' = Erased(inhibited, erases)
    /\ spc' = After("inhibit")
    /\ UNCHANGED <<engineVars, acc, seen, calls, last, messages, logging, log_file,
                   log_buf, done, turns, trace, shell_result, request, printed,
                   seen_non_ws, bpc, frame, read>>

\* A drop of the accumulator that folds only when accumulate returned Ok.
DropAcc_only_on_success ==
    /\ spc = "drop_acc"
    /\ messages' = IF result = Ok THEN add_assistant_response(messages, pieces)
                   ELSE messages
    /\ trace' = Append(trace, "fold")
    /\ spc' = After("drop_acc")
    /\ UNCHANGED <<engineVars, acc, seen, calls, last, logging, log_file, log_buf,
                   inhibited, done, turns, shell_result, request, printed,
                   seen_non_ws, bpc, frame, read, erases>>

\* drop(acc): the collected pieces are folded into the transcript.
DropAcc ==
    /\ spc = "drop_acc"
    /\ messages' = add_assistant_response(messages, pieces)
    /\ trace' = Append(trace, "fold")
    /\ spc' = After("drop_acc")
    /\ UNCHANGED <<engineVars, acc, seen, calls, last, logging, log_file, log_buf,
                   inhibited, done, turns, shell_result, request, printed,
                   seen_non_ws, bpc, frame,
                   read, erases>>

\* The write of the last message of the transcript to the log.
LogLast ==
    /\ spc = "log_last"
    /\ IF logging
       THEN /\ LogWrite(to_string(messages[Len(messages)]), "log_last")
            /\ trace' = Append(trace, "log_last")
       ELSE /\ spc' = After("log_last")
            /\ UNCHANGED <<log_file, log_buf, shell_result, done, inhibited, trace,
                           erases>>
    /\ UNCHANGED <<engineVars, acc, seen, calls, last, messages, logging, turns,
                   request, printed, seen_non_ws, bpc, frame, read>>

ShellNext ==
    \/ ReadLine
    \/ LogUser
    \/ BuildRequest
    \/ SpinnerStart
    \/ ShellDoit
    \/ ShellChunkFails
    \/ ShellErrorBodyChunk
    \/ ShellStreamChunk
    \/ ShellInhibit
    \/ DropAcc
    \/ LogLast

SpecShell == ShellInit /\ [][ShellNext]_vars

\* ------------------------------------------------------ claims on the shell

\* Event e occurs in the turn's trace before position i.
Before(e, i) == \E j \in 1..(i - 1) : trace[j] = e

\* C10: with logging enabled, in every turn the log write (and flush) of the
\* user message comes before the transport invocation, and the second log
\* write comes after accumulate has returned and after the collected
\* fragments have been folded into the transcript, in that order.
C10_TurnOrdering ==
    logging =>
        \A i \in 1..Len(trace) :
            /\ trace[i] = "transport" => Before("log_user", i)
            /\ trace[i] = "fold" => Before("returned", i)
            /\ trace[i] = "log_last" => (Before("returned", i) /\ Before("fold", i))

C10_Witness ==
    /\ logging
    /\ trace = <<"push_user", "log_user", "transport", "returned", "fold", "log_last">>
    /\ stopped
    /\ turns = 2

\* The role of the message a line of the log holds; none for other lines.
RoleOf(line) ==
    LET m == from_str_ChatMessage(line) IN IF m.ok THEN m.msg.role ELSE <<>>

\* C11: crash consistency of the log.  With logging enabled, in every state
\* every assistant line that has reached the log file comes after the user
\* line of its turn, with no other assistant line between the two: the pair
\* is a user message and the assistant message that follows it in the
\* transcript.
C11_AssistantAfterUser ==
    logging =>
        \A i \in 1..Len(log_file) :
            RoleOf(log_file[i]) = Assistant =>
                \E j \in 1..(i - 1) :
                    /\ RoleOf(log_file[j]) = User
                    /\ \A l \in (j + 1)..(i - 1) : RoleOf(log_file[l]) = User
                    /\ \E k \in 1..(Len(messages) - 1) :
                           /\ to_string(messages[k]) = log_file[j]
                           /\ to_string(messages[k + 1]) = log_file[i]

\* An assistant line is in the file while a later line is still held in the
\* buffer, where a crash loses it.
C11_Witness ==
    /\ logging
    /\ log_buf # <<>>
    /\ \E i \in 1..Len(log_file) : RoleOf(log_file[i]) = Assistant

\* The lines of the log that hold a message, in the file or still buffered.
WrittenMessages ==
    SelectSeq(log_file \o log_buf, LAMBDA line : from_str_ChatMessage(line).ok)

RECURSIVE UserCount(_)
UserCount(msgs) ==
    IF msgs = <<>> THEN 0
    ELSE (IF Head(msgs).role = User THEN 1 ELSE 0) + UserCount(Tail(msgs))

\* The messages this session has appended: the transcript from the user
\* message of the session's first turn on.
SessionMessages ==
    IF turns = 0 THEN <<>>
    ELSE LET k == CHOOSE i \in 1..Len(messages) :
                      /\ messages[i].role = User
                      /\ UserCount(SubSeq(messages, i, Len(messages))) = turns
         IN SubSeq(messages, k, Len(messages))

\* C12: the log mirrors the transcript.  With logging enabled, whenever the
\* shell awaits input the message lines written in this session are the
\* messages appended to the transcript in this session, in order, each once.
C12_LogMirrorsTranscript ==
    (logging /\ spc = "readline") =>
        WrittenMessages = [i \in 1..Len(SessionMessages) |-> to_string(SessionMessages[i])]

\* C13: a failing log write does not end the session: the shell never
\* returns the error of a log write.
C13_LogFailureKeepsSession ==
    ~(spc = "exit" /\ shell_result = ErrIo)

\* The current turn has reported a failure of Request::chat or of accumulate.
TurnFailed ==
    \/ \E i \in 1..Len(trace) : trace[i] = "request_failed"
    \/ /\ \E i \in 1..Len(trace) : trace[i] = "returned"
       /\ result # Ok

\* C14: a failure of Request::chat or of accumulate never ends the shell loop:
\* the turn that reported it does not make the shell return, and the turn
\* invokes the transport at most once.
C14_RequestFailureNotFatal ==
    /\ ~(TurnFailed /\ spc = "exit" /\ shell_result # Ok)
    /\ Cardinality({i \in 1..Len(trace) : trace[i] = "transport"}) <= 1

\* ---------------------------------------------------- claims on the fan-out

\* C7: every member of a group receives every value the group is given, the
\* members declared after a member that answers Break included.
C7_EveryMemberCalled ==
    \A id \in Leaves(acc) : Len(seen[id]) = calls

\* C8: the stop vote.  A group answers Break exactly when one of its sinks
\* answers Break for the value (that sink was called), and Continue exactly
\* when all of them answer Continue (all were called, in declared order);
\* groups with a group as a member included.
C8_StopVote ==
    calls > 0 =>
        /\ last.flow = "Break" <=> \E id \in Leaves(acc) : last.flows[id] = "Break"
        /\ last.flow = "Break" =>
               last.flows[last.called[Len(last.called)]] = "Break"
        /\ last.flow = "Continue" <=>
               /\ \A id \in Leaves(acc) : last.flows[id] = "Continue"
               /\ Len(last.called) = Cardinality(Leaves(acc))
               /\ \A k \in 1..Len(last.called) : last.called[k] = k

C8_Witness ==
    /\ acc = Tuple(<<Leaf(1), Ref(Tuple(<<Leaf(2), Leaf(3)>>))>>)
    /\ calls > 0
    /\ last.flows[1] = "Continue"
    /\ last.flows[2] = "Continue"
    /\ last.flows[3] = "Break"
    /\ last.flow = "Break"

\* ------------------------------------------------------------------ folding
\* add_assistant_response on lists of collected pieces.

\* The value of a chat fragment with the given content.
ChatPiece(content) == from_str(trim(Fragment(content, FALSE))).v

\* The value of a generate fragment, {"response":<text>}.
GeneratePiece(t) == Object(ResponseKey :> Str(t))

\* {"message":"m"}: the message is no object.
MessageIsString == Object(MessageKey :> Str(<<"m">>))

FoldPieces ==
    { ChatPiece(<<"4">>), ChatPiece(<<"2">>), ChatPiece(<<>>),
      GeneratePiece(<<"H", "i">>), MessageIsString }

\* The most pieces a list to fold holds.
MaxPieces == 3

PieceLists == UNION {[1..n -> FoldPieces] : n \in 0..MaxPieces}

\* A ConversationAccumulator that has collected a list of pieces is about to
\* be dropped.
FoldInit ==
    /\ EngineIdle
    /\ acc = ShellGroup
    /\ \E ps \in PieceLists : seen = [NothingSeen EXCEPT ![2] = ps]
    /\ calls = 0
    /\ last = NoCall
    /\ spc = "drop_acc"
    /\ messages \in LoadedTranscripts
    /\ logging = FALSE
    /\ log_file = <<>>
    /\ log_buf = <<>>
    /\ inhibited = TRUE
    /\ done = FALSE
    /\ turns = 0
    /\ trace = <<>>
    /\ shell_result = NoResult
    /\ request = <<>>
    /\ printed = <<>>
    /\ seen_non_ws = FALSE
    /\ bpc = "idle"
    /\ frame = 0
    /\ read = NoRead
    /\ erases = 0

FoldNext == DropAcc

SpecFold == FoldInit /\ [][FoldNext]_vars

\* The list has been folded.
Folded == spc = After("drop_acc")

\* The text the specification takes from a fragment: the string at
\* message.content, or else the string at response.
FragmentText(x) ==
    IF PieceContent(x) # <<>> THEN PieceContent(x)
    ELSE IF x.t = "obj" /\ HasString(x.m, ResponseKey) THEN x.m[ResponseKey].s
    ELSE <<>>

RECURSIVE JoinText(_)
JoinText(ps) ==
    IF ps = <<>> THEN <<>> ELSE FragmentText(Head(ps)) \o JoinText(Tail(ps))

\* C15: folding concatenates, in arrival order, the string at message.content
\* or at response of every fragment and, when the concatenation is not empty,
\* appends exactly one assistant message with that content.
C15_FoldBothShapes ==
    Folded =>
        LET content == JoinText(pieces) IN
        IF content # <<>>
        THEN /\ messages # <<>>
             /\ messages[Len(messages)] = ChatMessage(Assistant, content)
             /\ SubSeq(messages, 1, Len(messages) - 1) \in LoadedTranscripts
        ELSE messages \in LoadedTranscripts

\* C16: folding a list that is empty, or none of whose fragments carries
\* content that is not empty, leaves the transcript as it was; folding never
\* adds an assistant message with empty content.
C16_FoldNothing ==
    /\ (Folded /\ \A i \in 1..Len(pieces) : PieceContent(pieces[i]) = <<>>)
           => messages \in LoadedTranscripts
    /\ \A i \in 1..Len(messages) :
           messages[i].role = Assistant => messages[i].content # <<>>

C16_Witness ==
    /\ Folded
    /\ pieces = <<ChatPiece(<<>>), GeneratePiece(<<"H", "i">>)>>
    /\ Len(messages) = 2

\* ------------------------------------------------------------ ChatAccumulator
\* A ChatAccumulator::default() that a caller hands values one by one.

PrinterValues ==
    { ChatPiece(<<>>), ChatPiece(<<SP>>), ChatPiece(<<"4", "2">>),
      ChatPiece(<<SP, "a">>), GeneratePiece(<<"H", "i">>) }

PrinterInit ==
    /\ EngineIdle
    /\ ShellIdle
    /\ acc = Leaf(3)
    /\ seen = NothingSeen
    /\ calls = 0
    /\ last = NoCall

\* printer.accumulate(v)
PrinterCall ==
    /\ calls < MaxValues
    /\ \E v \in PrinterValues :
           LET flows == ShellFlows(v)
               r == Accumulator_accumulate(acc, flows)
               w == ChatAccumulator_write(seen_non_ws, v) IN
           /\ seen' = Record(seen, r.called, v)
           /\ last' = [flows |-> flows, flow |-> r.flow, called |-> r.called]
           /\ printed' = printed \o w.out
           /\ seen_non_ws' = w.seen_non_ws
    /\ calls' = calls + 1
    /\ UNCHANGED <<acc, engineVars, spc, messages, logging, log_file, log_buf,
                   inhibited, done, turns, trace, shell_result, request, bpc, frame,
                   read, erases>>

PrinterNext == PrinterCall

SpecPrinter == PrinterInit /\ [][PrinterNext]_vars

\* The content of a well-formed chat fragment.
ContentOf(v) == from_value_ChatResponse(v).msg.content

\* What a sequence of well-formed chat fragments prints: nothing up to the
\* first fragment whose content is not whitespace, and from that fragment on
\* the content of every fragment.
ExpectedPrint(vs) ==
    LET shown == {i \in 1..Len(vs) : \E j \in 1..i : trim(ContentOf(vs[j])) # <<>>} IN
    Concat([i \in 1..Len(vs) |-> IF i \in shown THEN ContentOf(vs[i]) ELSE <<>>])

\* C17: over any sequence of well-formed chat fragments the ChatAccumulator
\* writes nothing for fragments whose content is empty or whitespace as long
\* as no fragment with other content has been seen, and from the first such
\* fragment on writes the content of every fragment verbatim and in order.
C17_WhitespaceSuppression ==
    (\A i \in 1..Len(seen[3]) : from_value_ChatResponse_ok(seen[3][i]))
        => printed = ExpectedPrint(seen[3])

C17_Witness ==
    /\ seen[3] = <<ChatPiece(<<>>), ChatPiece(<<"4", "2">>), ChatPiece(<<SP>>)>>
    /\ printed = <<"4", "2", SP>>

\* C18: a streamed value that has not the shape of a chat response is the
\* last value of its accumulate call: the ChatAccumulator writes nothing for
\* it and answers Break, accumulate returns Ok, and no sink is given a later
\* fragment.
C18_ProtocolViolationStops ==
    \A i \in 1..Len(delivered) :
        ~from_value_ChatResponse_ok(delivered[i]) =>
            /\ i = Len(delivered)
            /\ last.flows[3] = "Break"
            /\ stopped
            /\ apc = "done"
            /\ result = Ok
            /\ printed = ExpectedPrint(SubSeq(delivered, 1, i - 1))
            /\ \A id \in Leaves(acc) : seen[id] = delivered

C18_Witness ==
    /\ spc = "inhibit"
    /\ Len(delivered) = 1
    /\ ~from_value_ChatResponse_ok(delivered[1])
    /\ MoreToRead
    /\ result = Ok

\* --------------------------------------------------------------------- load
\* A transcript is written to a log, one message per line, and a later
\* session loads the file.

\* Contents with a space at either end, a quote, a backslash, a newline and
\* a two-byte character.
LogContents ==
    { <<"h", "i">>, <<SP, "a", SP>>, <<Q>>, <<BS>>, <<"a", NL, "b">>, <<"xC3", "xA9">> }

LogMessages == {ChatMessage(role, content) : role \in {User, Assistant}, content \in LogContents}

\* The most messages a written transcript holds.
MaxMessages == 2

WrittenTranscripts == UNION {[1..n -> LogMessages] : n \in 0..MaxMessages}

\* Lines that hold no message: empty, blank, cut short, an object without
\* content, an array of two strings.
JunkLines ==
    { <<>>,
      <<SP>>,
      <<"{", Q>> \o RoleKey \o <<Q, ":">> \o Quoted(User),
      <<"{", Q>> \o RoleKey \o <<Q, ":">> \o Quoted(User) \o <<"}">>,
      <<"[">> \o Quoted(User) \o <<",">> \o Quoted(<<"h", "i">>) \o <<"]">> }

\* The lines, each followed by the junk lines.
RECURSIVE Interleave(_, _)
Interleave(lines, junk) ==
    IF lines = <<>> THEN <<>>
    ELSE <<Head(lines)>> \o junk \o Interleave(Tail(lines), junk)

LoadInit ==
    /\ EngineIdle
    /\ acc = ShellGroup
    /\ seen = NothingSeen
    /\ calls = 0
    /\ last = NoCall
    /\ spc = "write"
    /\ messages \in WrittenTranscripts
    /\ logging = TRUE
    /\ log_file = <<>>
    /\ log_buf = <<>>
    /\ inhibited = TRUE
    /\ done = FALSE
    /\ turns = 0
    /\ trace = <<>>
    /\ shell_result = NoResult
    /\ request = <<>>
    /\ printed = <<>>
    /\ seen_non_ws = FALSE
    /\ bpc = "idle"
    /\ frame = 0
    /\ read = NoRead
    /\ erases = 0

\* The transcript reaches the file: serde_json::to_string of each message
\* on a line of its own, after the line of the arguments or not, with lines
\* that hold no message between them or not.
WriteLog ==
    /\ spc = "write"
    /\ \E first \in {<<>>, <<ArgsLine>>} :
       \E junk \in {<<>>} \cup {<<j>> : j \in JunkLines} :
           log_file' = first \o junk
                       \o Interleave([i \in 1..Len(messages) |-> to_string(messages[i])], junk)
    /\ spc' = "load"
    /\ UNCHANGED <<engineVars, acc, seen, calls, last, messages, logging, log_buf,
                   inhibited, done, turns, trace, shell_result, request, printed,
                   seen_non_ws, bpc, frame,
                   read, erases>>

\* for msg in load(path)? { self.push(msg) } on a new Conversation.
Load ==
    /\ spc = "load"
    /\ messages' = load(FileBytes(log_file))
    /\ spc' = "loaded"
    /\ UNCHANGED <<engineVars, acc, seen, calls, last, logging, log_file, log_buf,
                   inhibited, done, turns, trace, shell_result, request, printed,
                   seen_non_ws, bpc, frame,
                   read, erases>>

LoadNext == WriteLog \/ Load

SpecLoad == LoadInit /\ [][LoadNext]_vars

\* C19: the replay-load round trip.  Loading a log to which a list of user
\* and assistant messages was written yields the same list, role and content
\* preserved; the line of the arguments and the lines that are blank or hold
\* no message are skipped and change nothing.
C19_LoadRoundTrip ==
    [][spc = "load" => messages' = messages]_vars

C19_Witness ==
    /\ spc = "loaded"
    /\ messages = <<ChatMessage(User, <<"a", NL, "b">>), ChatMessage(Assistant, <<Q>>)>>
    /\ log_file[1] = ArgsLine
    /\ Len(log_file) = 6

\* ------------------------------------------------------------------ Spinner
\* A Spinner, its owner and its background thread.  The owner's calls of
\* start and inhibit hold the lock of inhibited from their first statement
\* to their last and are single steps; the background thread holds the lock
\* while it is at "locked" and at "write".  done is an atomic flag: a load that the store
\* has not reached yet reads as a load taken before the store.

\* SPINNER.len()
SpinnerLen == 10

\* What neither the Spinner nor its thread touches.
spinnerFrame == <<engineVars, acc, seen, calls, last, messages, logging, log_file,
                  log_buf, turns, trace, shell_result, request, printed, seen_non_ws>>

\* Spinner::new has returned: the thread is spawned and at the head of its
\* loop.
SpinnerInit ==
    /\ EngineIdle
    /\ acc = ShellGroup
    /\ seen = NothingSeen
    /\ calls = 0
    /\ last = NoCall
    /\ spc = "spinner"
    /\ messages = <<>>
    /\ logging = FALSE
    /\ log_file = <<>>
    /\ log_buf = <<>>
    /\ inhibited = TRUE
    /\ done = FALSE
    /\ turns = 0
    /\ trace = <<>>
    /\ shell_result = NoResult
    /\ request = <<>>
    /\ printed = <<>>
    /\ seen_non_ws = FALSE
    /\ bpc = "check"
    /\ frame = 0
    /\ read = NoRead
    /\ erases = 0

\* The most erase sequences the owner of the Spinner has written before it
\* stops starting the Spinner again.
MaxErases == 2

\* The loop of the background thread that never ends.
while_forever(d) == TRUE

\* while !done_p.load(Ordering::Relaxed)
while_not_done(d) == ~d

\* A lock of inhibited that is granted whoever holds it.
Mutex_lock_unguarded(b) == TRUE

\* self.inhibited.lock() returns in the owner's thread: the background thread,
\* at b, is not holding the guard.
Mutex_lock(b) == b \notin {"locked", "write"}

\* Spinner::start
Spinner_start ==
    /\ spc = "spinner"
    /\ erases < MaxErases
    /\ Mutex_lock(bpc)
    /\ inhibited' = FALSE
    /\ UNCHANGED <<spinnerFrame, spc, done, bpc, frame, read, erases>>

\* Spinner::inhibit, called by the owner or by Spinner::accumulate.
Spinner_inhibit ==
    /\ spc = "spinner"
    /\ Mutex_lock(bpc)
    /\ inhibited' = TRUE
    /\ erases' = Erased(inhibited, erases)
    /\ UNCHANGED <<spinnerFrame, spc, done, bpc, frame, read>>

\* Drop for Spinner: self.done.store(true, Ordering::Relaxed)
Drop_store ==
    /\ spc = "spinner"
    /\ done' = TRUE
    /\ spc' = "drop_inhibit"
    /\ UNCHANGED <<spinnerFrame, inhibited, bpc, frame, read, erases>>

\* Drop for Spinner: self.inhibit()
Drop_inhibit ==
    /\ spc = "drop_inhibit"
    /\ Mutex_lock(bpc)
    /\ inhibited' = TRUE
    /\ erases' = Erased(inhibited, erases)
    /\ spc' = "drop_join"
    /\ UNCHANGED <<spinnerFrame, done, bpc, frame, read>>

\* Drop for Spinner: background.join().unwrap() returns.
Drop_join ==
    /\ spc = "drop_join"
    /\ bpc = "exited"
    /\ spc' = "dropped"
    /\ UNCHANGED <<spinnerFrame, inhibited, done, bpc, frame, read, erases>>

\* The thread tests the condition of its loop and sleeps, or leaves.
Background_check ==
    /\ bpc = "check"
    /\ bpc' = IF while_not_done(done) THEN "sleep" ELSE "exited"
    /\ UNCHANGED <<spinnerFrame, spc, inhibited, done, frame, read, erases>>

\* The sleep is over and inhibited_p.lock() returns: the owner is inside
\* neither start nor inhibit, which are single steps.
Background_lock ==
    /\ bpc = "sleep"
    /\ bpc' = "locked"
    /\ UNCHANGED <<spinnerFrame, spc, inhibited, done, frame, read, erases>>

\* if *inhibited_p { continue; } with the guard held: the guard is released
\* by the continue, or kept for the write.
Background_test ==
    /\ bpc = "locked"
    /\ bpc' = IF inhibited THEN "check" ELSE "write"
    /\ UNCHANGED <<spinnerFrame, spc, inhibited, done, frame, read, erases>>

\* The glyph SPINNER[i % SPINNER.len()] is written and flushed, i grows, and
\* the guard is released at the end of the iteration.
Background_write ==
    /\ bpc = "write"
    /\ frame' = (frame + 1) % SpinnerLen
    /\ bpc' = "check"
    /\ UNCHANGED <<spinnerFrame, spc, inhibited, done, read, erases>>

SpinnerNext ==
    \/ Spinner_start
    \/ Spinner_inhibit
    \/ Drop_store
    \/ Drop_inhibit
    \/ Drop_join
    \/ Background_check
    \/ Background_lock
    \/ Background_test
    \/ Background_write

SpecSpinner == SpinnerInit /\ [][SpinnerNext]_vars

\* Both threads are scheduled again and again: the steps of the background
\* thread and the steps of a drop that has begun are taken when they stay
\* possible.
SpecSpinnerFair ==
    /\ SpecSpinner
    /\ WF_vars(Background_check)
    /\ WF_vars(Background_lock)
    /\ WF_vars(Background_test)
    /\ WF_vars(Background_write)
    /\ WF_vars(Drop_inhibit)
    /\ WF_vars(Drop_join)

\* C20: done goes from false to true once, by the store of drop and by no
\* other step, and never back; once it is set the background thread leaves
\* its loop and the join of drop returns.
C20_SpinnerShutdown ==
    /\ [][done => done']_vars
    /\ [][(~done /\ done') => (spc = "spinner" /\ spc' = "drop_inhibit")]_vars
    /\ done ~> (spc = "dropped" /\ bpc = "exited")

\* The Spinner is dropped after its thread has written glyphs.
C20_Witness ==
    /\ spc = "dropped"
    /\ bpc = "exited"
    /\ done
    /\ frame > 0

\* ------------------------------------------- claims on the reading of lines

\* C21: an end-of-input signal ends the loop with success; an interrupt
\* returns to awaiting input and leaves the transcript, the log and the
\* spinner's flags unchanged and issues no request; any other failure to read
\* a line is reported and the loop continues with the transcript unchanged.
C21_LineReadOutcomes ==
    [][spc = "readline" =>
        /\ read'.kind = "Eof" => (spc' = "exit" /\ shell_result' = Ok)
        /\ read'.kind = "Interrupted" =>
               /\ spc' = "readline"
               /\ messages' = messages
               /\ log_file' = log_file
               /\ log_buf' = log_buf
               /\ inhibited' = inhibited
               /\ done' = done
               /\ turns' = turns
               /\ request' = request
               /\ apc' = apc
        /\ read'.kind = "Err" =>
               /\ read'.report = "could not read line"
               /\ spc' = "readline"
               /\ messages' = messages]_vars

\* A logged session has completed a turn and is awaiting input again after an
\* interrupt.
C21_Witness ==
    /\ read.kind = "Interrupted"
    /\ spc = "readline"
    /\ logging
    /\ turns = 1
    /\ Len(messages) >= 2

\* The first character of line that is not whitespace is the reserved prefix.
HasReservedPrefix(line) ==
    \E i \in 1..Len(line) :
        /\ line[i] = "/"
        /\ \A j \in 1..(i - 1) : line[j] \in Whitespace

IsPrefix(s, t) == Len(s) <= Len(t) /\ SubSeq(t, 1, Len(s)) = s

\* C22: a line whose trimmed text begins with "/" never becomes a turn: it is
\* not appended to the transcript, no line is written to the log for it, and
\* no request is built or sent; /exit ends the session with success and any
\* other command is reported and the loop continues.
C22_CommandsNeverTurns ==
    [][(spc = "readline" /\ read'.kind = "Ok" /\ HasReservedPrefix(read'.line)) =>
        /\ messages' = messages
        /\ IsPrefix(log_file' \o log_buf', log_file \o log_buf)
        /\ turns' = turns
        /\ trace' = trace
        /\ request' = request
        /\ apc' = apc
        /\ IF read'.line = Exit
           THEN spc' = "exit" /\ shell_result' = Ok
           ELSE spc' = "readline" /\ read'.report = "unknown command"]_vars

\* After a turn, /exit behind a space was read and reported as unknown.
C22_Witness ==
    /\ read = Read("Ok", <<SP>> \o Exit, "unknown command")
    /\ spc = "readline"
    /\ turns = 1
    /\ Len(messages) >= 1

\* ------------------------------------------ claims on the spinner's flags

\* C24: whenever the shell awaits input the spinner is inhibited, and the
\* flag is false only from spinner.start() of a turn until the first value
\* accumulate delivers or, when none is delivered, until the turn's
\* accumulate has ended and spinner.inhibit() has closed it.
C24_InhibitedWhileAwaitingInput ==
    /\ spc = "readline" => inhibited
    /\ ~inhibited => (spc \in {"accumulate", "inhibit"} /\ delivered = <<>>)

\* A turn whose accumulate delivered nothing has ended and the shell awaits
\* input.
C24_Witness ==
    /\ spc = "readline"
    /\ inhibited
    /\ turns >= 1
    /\ apc = "done"
    /\ delivered = <<>>
    /\ erases = turns

\* C25: a value delivered to the Spinner sets inhibited and is answered with
\* Continue; a delivery to an inhibited Spinner changes no flag and writes no
\* further erase sequence; and whenever the printer writes content in a turn
\* the Spinner was reached before it in that call of the group.
C25_SpinnerSink ==
    [][(spc = "accumulate" /\ delivered' # delivered) =>
        /\ inhibited'
        /\ done' = done
        /\ last'.flows[1] = "Continue"
        /\ erases' = (IF inhibited THEN erases ELSE erases + 1)
        /\ printed' # printed =>
               \E i \in 1..Len(last'.called) : \E j \in 1..Len(last'.called) :
                   /\ i < j
                   /\ last'.called[i] = 1
                   /\ last'.called[j] = 3]_vars

\* A second value was delivered in a turn, and the printer wrote content.
C25_Witness ==
    /\ spc = "accumulate"
    /\ Len(delivered) = 2
    /\ inhibited
    /\ erases = turns
    /\ printed # <<>>

\* ------------------------------------------------- claims on the request

\* C26: the request of a turn carries the whole transcript as it stands at
\* dispatch: what was loaded or accumulated before the turn followed by the
\* user message of the turn, which is its last element; building the request
\* leaves the transcript as it is.
C26_RequestCarriesTranscript ==
    [][/\ (spc = "readline" /\ spc' \notin {"readline", "exit"}) =>
              messages' = Append(messages, ChatMessage(User, read'.line))
       /\ spc = "log_user" => messages' = messages
       /\ spc = "request" =>
              /\ request' = messages
              /\ messages' = messages
              /\ request' # <<>>
              /\ request'[Len(request')] = ChatMessage(User, read.line)]_vars

\* The request of a second turn that follows a loaded transcript and a first
\* turn with an answer.
C26_Witness ==
    /\ spc = "start"
    /\ turns = 2
    /\ request = messages
    /\ Len(request) >= 5

\* C23: the background thread tests inhibited and writes its glyph under the
\* lock that start and inhibit take, so no glyph is written in a state where
\* inhibited is true, and none between an inhibit and the next start.
C23_GlyphsRespectInhibit ==
    [][frame' # frame => (~inhibited /\ ~inhibited')]_vars

\* The thread has written glyphs, the Spinner was inhibited with an erase,
\* and the thread holds the lock with its test ahead.
C23_Witness ==
    /\ spc = "spinner"
    /\ bpc = "locked"
    /\ inhibited
    /\ erases > 0
    /\ frame > 0

\* --------------------------------------------- the chat loop of the binary
\* chat in bin/yammer.rs: a loop of its own with a Conversation, no log, no
\* spinner and no commands.

\* let mut history = vec![]; nothing is ever pushed to it.
history == <<>>

\* The lines rl.readline returns to chat; every one of them is a turn.
ChatLines == {<<"h", "i">>, Exit}

\* &mut (&mut acc, &mut printer): the VecAccumulator and the ChatAccumulator.
ChatGroup == Ref(Tuple(<<Ref(Leaf(1)), Ref(Leaf(2))>>))

\* The VecAccumulator always continues, the ChatAccumulator decides.
ChatFlows(value) ==
    [id \in Sinks |-> IF id = 2 THEN ChatAccumulator_accumulate(value) ELSE "Continue"]

\* let mut msgs = vec![]: what the VecAccumulator has collected.
msgs == seen[1]

\* What chat never touches: there is no log and no Spinner.
chatFrame == <<logging, log_file, log_buf, inhibited, done, bpc, frame, erases, calls>>

\* chat has made its editor and its empty Conversation.
ChatInit ==
    /\ EngineIdle
    /\ acc = ChatGroup
    /\ seen = NothingSeen
    /\ calls = 0
    /\ last = NoCall
    /\ spc = "chat_readline"
    /\ messages = <<>>
    /\ logging = FALSE
    /\ log_file = <<>>
    /\ log_buf = <<>>
    /\ inhibited = TRUE
    /\ done = FALSE
    /\ turns = 0
    /\ trace = <<>>
    /\ shell_result = NoResult
    /\ request = <<>>
    /\ printed = <<>>
    /\ seen_non_ws = FALSE
    /\ bpc = "idle"
    /\ frame = 0
    /\ read = NoRead
    /\ erases = 0

\* rl.readline("yammer> ") and the match on it, up to the push of the user
\* message.
ChatReadLine ==
    /\ spc = "chat_readline"
    /\ \/ \E line \in ChatLines :
              /\ turns < MaxTurns
              /\ messages' = Append(messages, ChatMessage(User, line))
              /\ turns' = turns + 1
              /\ read' = Read("Ok", line, "none")
              /\ spc' = "chat_request"
              /\ UNCHANGED shell_result
       \/ /\ read' = Read("Interrupted", <<>>, "none")
          /\ UNCHANGED <<spc, messages, turns, shell_result>>
       \/ /\ read' = Read("Eof", <<>>, "none")
          /\ spc' = "exit"
          /\ shell_result' = Ok
          /\ UNCHANGED <<messages, turns>>
       \/ /\ read' = Read("Err", <<>>, "could not read line")
          /\ UNCHANGED <<spc, messages, turns, shell_result>>
    /\ UNCHANGED <<engineVars, acc, seen, last, trace, request, printed, seen_non_ws,
                   chatFrame>>

\* The ChatRequest is built with messages: history.clone(), and Request::chat
\* may fail: the failure is reported and the loop continues.
ChatBuildRequest ==
    /\ spc = "chat_request"
    /\ request' = history
    /\ \/ /\ spc' = "chat_start"
          /\ UNCHANGED trace
       \/ /\ spc' = "chat_readline"
          /\ trace' = Append(trace, "request_failed")
    /\ UNCHANGED <<engineVars, acc, seen, last, messages, turns, shell_result,
                   printed, seen_non_ws, read, chatFrame>>

\* msgs, the VecAccumulator and the printer are made and accumulate is
\* called on the group of the two; the service will answer with one of
\* ShellResponses.
ChatStart ==
    /\ spc = "chat_start"
    /\ \E r \in ShellResponses :
           /\ status' = r.status
           /\ pending' = r.chunks
           /\ body' = Concat(r.chunks)
    /\ streaming' = TRUE
    /\ leftovers' = <<>>
    /\ text' = <<>>
    /\ apc' = "doit"
    /\ result' = NoResult
    /\ delivered' = <<>>
    /\ stopped' = FALSE
    /\ chunks_read' = 0
    /\ seen' = NothingSeen
    /\ last' = NoCall
    /\ printed' = <<>>
    /\ seen_non_ws' = FALSE
    /\ trace' = <<>>
    /\ spc' = "chat_accumulate"
    /\ UNCHANGED <<acc, messages, turns, shell_result, request, read, chatFrame>>

\* One step of accumulate with the two sinks of chat as the consumer.
ChatAccumulate(step) ==
    /\ spc = "chat_accumulate"
    /\ apc # "done"
    /\ step
    /\ delivered' # delivered => last'.flows = ChatFlows(delivered'[Len(delivered')])
    /\ IF delivered' # delivered /\ Reached(2, last'.called)
       THEN LET w == ChatAccumulator_write(seen_non_ws, delivered'[Len(delivered')]) IN
            /\ printed' = printed \o w.out
            /\ seen_non_ws' = w.seen_non_ws
       ELSE UNCHANGED <<printed, seen_non_ws>>
    /\ spc' = IF apc' = "done" THEN "chat_fold" ELSE spc
    /\ UNCHANGED <<messages, turns, trace, shell_result, request, read, logging,
                   log_file, log_buf, inhibited, done, bpc, frame, erases>>

ChatDoit == ChatAccumulate(Doit)
ChatChunkFails == ChatAccumulate(ChunkFails)
ChatErrorBodyChunk == ChatAccumulate(ErrorBodyChunk)
ChatStreamChunk == ChatAccumulate(StreamChunk)

\* conversation.add_assistant_response(msgs)
ChatFold ==
    /\ spc = "chat_fold"
    /\ messages' = add_assistant_response(messages, msgs)
    /\ spc' = "chat_readline"
    /\ UNCHANGED <<engineVars, acc, seen, last, turns, trace, shell_result, request,
                   printed, seen_non_ws, read, chatFrame>>

ChatNext ==
    \/ ChatReadLine
    \/ ChatBuildRequest
    \/ ChatStart
    \/ ChatDoit
    \/ ChatChunkFails
    \/ ChatErrorBodyChunk
    \/ ChatStreamChunk
    \/ ChatFold

SpecChat == ChatInit /\ [][ChatNext]_vars

\* C27: the request chat sends for a user line holds the conversation so far,
\* the messages of the earlier turns followed by the user message just read,
\* and so is never empty.
C27_ChatRequestCarriesConversation ==
    spc \in {"chat_start", "chat_accumulate"} =>
        /\ request = messages
        /\ request # <<>>
        /\ request[Len(request)] = ChatMessage(User, read.line)

\* ------------------------------------- claims on the chunks of the stream

AllWhitespace(bytes) == \A i \in 1..Len(bytes) : bytes[i] \in Whitespace

\* C28: in the streaming loop a chunk that is empty or holds only whitespace
\* changes nothing: the buffer is the same before and after, nothing is
\* parsed and the consumer is not called; and a chunk with content that
\* leaves the buffer unparseable does not reach the consumer either, and the
\* buffer is kept and grows, it is not cleared.
C28_EmptyAndIncompleteChunks ==
    [][(apc = "streaming" /\ pending # <<>> /\ pending' = Tail(pending)) =>
        LET chunk == Head(pending) IN
        /\ AllWhitespace(chunk) =>
               /\ stream_chunk(leftovers, chunk).kind = "Empty"
               /\ leftovers' = leftovers
               /\ delivered' = delivered
               /\ seen' = seen
               /\ result' = result
               /\ apc' = apc
        /\ (/\ ~AllWhitespace(chunk)
            /\ from_utf8_ok(chunk)
            /\ ~from_str(leftovers \o trim(chunk)).ok) =>
               /\ delivered' = delivered
               /\ seen' = seen
               /\ IsPrefix(leftovers, leftovers')
               /\ Len(leftovers') > Len(leftovers)
               /\ result' = result
               /\ apc' = apc]_vars

\* The first chunk was an incomplete fragment and is kept, the second was a
\* single space and changed nothing, and the rest of the body is to come.
C28_Witness ==
    /\ apc = "streaming"
    /\ chunks_read = 2
    /\ pending # <<>>
    /\ leftovers # <<>>
    /\ delivered = <<>>
    /\ body = leftovers \o <<SP>> \o Concat(pending)

\* C29: a chunk boundary inside a multi-byte character does not make
\* accumulate fail: when the body as a whole is valid UTF-8, accumulate does
\* not end with a UTF-8 error, however the body is cut into chunks.
C29_SplitCharacterBuffered ==
    (apc = "done" /\ status = 200 /\ from_utf8_ok(body)) =>
        result # ErrMessage(Utf8ErrorText)

\* C30: a streamed response with status 200 in which no chunk read fails, no
\* state of the buffer parses as an error object and the consumer never
\* stops ends with success once the chunks are exhausted, whatever is left in
\* the buffer.
C30_StreamExhaustion ==
    (/\ apc = "done"
     /\ streaming
     /\ status = 200
     /\ result # ErrRequest
     /\ ~stopped
     /\ ~(result.kind = "Message" /\ result.text # Utf8ErrorText)) =>
        /\ result = Ok
        /\ pending = <<>>

\* ------------------------------------ claims on the growth of the transcript

\* C31: a dispatched turn appends one user message, at the read of its line,
\* and then at most one assistant message, at the drop of its accumulator;
\* no other step changes the transcript, so it grows by 1 or 2 in a turn and
\* what it held before is neither changed nor removed.  This holds however the
\* request ends, and when accumulate fails after it delivered fragments, the
\* content of those fragments is still folded into one assistant message.
C31_TranscriptGrowth ==
    [][/\ IsPrefix(messages, messages')
       /\ Len(messages') <= Len(messages) + 1
       /\ (spc = "readline" /\ turns' = turns + 1) =>
              messages' = Append(messages, ChatMessage(User, read'.line))
       /\ (spc = "readline" /\ turns' = turns) => messages' = messages
       /\ spc \notin {"readline", "drop_acc"} => messages' = messages
       /\ spc = "drop_acc" =>
              messages' = (IF JoinContent(delivered) = <<>>
                           THEN messages
                           ELSE Append(messages,
                                       ChatMessage(Assistant, JoinContent(delivered))))]_vars

\* accumulate failed on a service error after it had delivered a fragment,
\* and the content of that fragment is the assistant message of the turn.
C31_Witness ==
    /\ spc = After("drop_acc")
    /\ result.kind = "Message"
    /\ delivered # <<>>
    /\ Len(messages) >= 2
    /\ messages[Len(messages)] = ChatMessage(Assistant, JoinContent(delivered))
    /\ messages[Len(messages) - 1] = ChatMessage(User, read.line)

====
